---- MODULE Spec2Model ----
(***************************************************************************)
(* Model of the backlink runner: BacklinkRunner (src/backlink_runner.py)   *)
(* and the run_clicked block of the Streamlit front end (src/app.py).      *)
(*                                                                         *)
(* Strings are TLA+ strings; Python's str operations (startswith, strip,   *)
(* rstrip, lower, find) and urllib.parse.urlparse are written out below as *)
(* operators over them, character by character.                           *)
(***************************************************************************)
EXTENDS Integers, Sequences, FiniteSets, TLC

VARIABLES
    pc,          \* control position of the program
    rawTools,    \* raw_tools literal of _load_tools
    tools,       \* BacklinkRunner.tools
    targets,     \* normalize_targets(...) of app.py: records [url, keywords]
    targetIdx,   \* index of the target being processed by the app loop
    results,     \* app.py: results (records collected over all targets)
    runResults,  \* run_for_target: local results
    toolIdx,     \* run_for_target: position in self.tools
    attempts,    \* tool URLs handed to _run_single_tool in the current run_for_target
    openPages,   \* pages returned by new_page on which close was not called yet
    closeCalls,  \* number of page.close() calls made so far
    fields,      \* input/textarea elements of the current page, document order
    value,       \* content of each element of fields
    urlInput,    \* _run_single_tool: url_input (0 is None)
    kwInput,     \* _run_single_tool: kw_input (0 is None)
    submitted,   \* _run_single_tool: submitted
    backlinks,   \* _run_single_tool: backlinks
    failedAt,    \* step of the current tool iteration that raised ("" if none)
    failed,      \* tools whose iteration raised in the current run_for_target
    teardown,    \* shutdown: sub-resource teardowns attempted, in order
    teardownErr, \* shutdown: the teardowns that raised
    uiError,     \* app.py: what raised into the processing block's except ("" if nothing)
    reported,    \* app.py: what the aggregate block displayed
    arg,         \* input of the function under test (function specifications)
    out          \* its result

vars == << pc, rawTools, tools, targets, targetIdx, results, runResults, toolIdx,
           attempts, openPages, closeCalls, fields, value, urlInput, kwInput,
           submitted, backlinks, failedAt, failed, teardown, teardownErr,
           uiError, reported, arg, out >>

(***************************************************************************)
(* Bounds of the model.                                                    *)
(***************************************************************************)
MaxRaw == 3
MaxTargets == 1
MaxFields == 2
MaxAnchors == 2
MaxEvents == 2

(***************************************************************************)
(* Python str helpers.                                                     *)
(***************************************************************************)
LowerAlpha == "abcdefghijklmnopqrstuvwxyz"
UpperAlpha == "ABCDEFGHIJKLMNOPQRSTUVWXYZ"
Digits == "0123456789"

CharAt(s, i) == SubSeq(s, i, i)

CharsOf(s) == { CharAt(s, i) : i \in 1..Len(s) }

UpperSet == CharsOf(UpperAlpha)
AlphaSet == CharsOf(LowerAlpha \o UpperAlpha)

\* str.lower on one character
LowerOf ==
    [c \in UpperSet |->
        CharAt(LowerAlpha, CHOOSE i \in 1..Len(UpperAlpha) : CharAt(UpperAlpha, i) = c)]

LowerChar(c) == IF c \in UpperSet THEN LowerOf[c] ELSE c

RECURSIVE ToLower(_)
ToLower(s) ==
    IF s = "" THEN "" ELSE LowerChar(CharAt(s, 1)) \o ToLower(SubSeq(s, 2, Len(s)))

StartsWith(s, p) == Len(s) >= Len(p) /\ SubSeq(s, 1, Len(p)) = p

Contains(s, sub) ==
    \E i \in 1..(Len(s) - Len(sub) + 1) : SubSeq(s, i, i + Len(sub) - 1) = sub

\* str.find as a 1-based position, 0 when absent
Find(s, c) ==
    IF Contains(s, c)
    THEN CHOOSE i \in 1..Len(s) :
            /\ SubSeq(s, i, i + Len(c) - 1) = c
            /\ \A j \in 1..(i - 1) : SubSeq(s, j, j + Len(c) - 1) # c
    ELSE 0

RECURSIVE LStrip(_)
LStrip(s) == IF s # "" /\ CharAt(s, 1) = " " THEN LStrip(SubSeq(s, 2, Len(s))) ELSE s

RECURSIVE RStripChar(_, _)
RStripChar(s, c) ==
    IF s # "" /\ CharAt(s, Len(s)) = c THEN RStripChar(SubSeq(s, 1, Len(s) - 1), c) ELSE s

Strip(s) == RStripChar(LStrip(s), " ")

(***************************************************************************)
(* urllib.parse.urlparse: the scheme and netloc components.                *)
(***************************************************************************)
SchemeChars == CharsOf(LowerAlpha \o UpperAlpha \o Digits \o "+-.")

HasScheme(url) ==
    LET i == Find(url, ":") IN
        /\ i > 1
        /\ CharAt(url, 1) \in AlphaSet
        /\ \A j \in 1..(i - 1) : CharAt(url, j) \in SchemeChars

UrlScheme(url) ==
    IF HasScheme(url) THEN ToLower(SubSeq(url, 1, Find(url, ":") - 1)) ELSE ""

AfterScheme(url) ==
    IF HasScheme(url) THEN SubSeq(url, Find(url, ":") + 1, Len(url)) ELSE url

\* _splitnetloc: up to the first of "/", "?", "#" after the leading "//"
NetlocEnd(rest) ==
    LET stops == { i \in 3..Len(rest) : CharAt(rest, i) \in { "/", "?", "#" } } IN
        IF stops = {} THEN Len(rest)
        ELSE (CHOOSE i \in stops : \A j \in stops : i <= j) - 1

UrlNetloc(url) ==
    LET rest == AfterScheme(url) IN
        IF StartsWith(rest, "//") THEN SubSeq(rest, 3, NetlocEnd(rest)) ELSE ""

(***************************************************************************)
(* BacklinkRunner._load_tools: order-preserving deduplication.             *)
(***************************************************************************)
RECURSIVE DedupFrom(_, _, _)
DedupFrom(raw, i, deduped) ==
    IF i > Len(raw) THEN deduped
    ELSE IF \E k \in 1..Len(deduped) : deduped[k] = raw[i]
         THEN DedupFrom(raw, i + 1, deduped)
         ELSE DedupFrom(raw, i + 1, Append(deduped, raw[i]))

\* mutation: the raw list is returned as it is
LoadToolsNoDedup(raw) == raw

LoadTools(raw) == DedupFrom(raw, 1, << >>)

(***************************************************************************)
(* BacklinkRunner._extract_links.                                          *)
(*   pageUrl   page.url at the time of the call                            *)
(*   contentOk FALSE when page.content() raises                            *)
(*   anchors   href attribute of every <a href> of the content, in order   *)
(***************************************************************************)
AbsUrl(pageUrl, href) ==
    IF UrlScheme(href) = ""
    THEN RStripChar(pageUrl, "/") \o (IF ~StartsWith(href, "/") THEN "/" ELSE "") \o href
    ELSE href

\* the per-anchor body of the loop: TRUE when abs_url is appended to found
KeepsAnchor(pageUrl, rawHref) ==
    LET href == Strip(rawHref)
        host == UrlNetloc(AbsUrl(pageUrl, href))
    IN  /\ href # ""
        /\ ~(StartsWith(href, "javascript:") \/ StartsWith(href, "#"))
        /\ ~StartsWith(href, "mailto:")
        /\ host # ""
        /\ host # UrlNetloc(pageUrl)

RECURSIVE FoundFrom(_, _, _, _)
FoundFrom(pageUrl, anchors, i, found) ==
    IF i > Len(anchors) THEN found
    ELSE IF KeepsAnchor(pageUrl, anchors[i])
         THEN FoundFrom(pageUrl, anchors, i + 1,
                        Append(found, AbsUrl(pageUrl, Strip(anchors[i]))))
         ELSE FoundFrom(pageUrl, anchors, i + 1, found)

RECURSIVE UniqueFrom(_, _, _)
UniqueFrom(found, i, unique) ==
    IF i > Len(found) THEN unique
    ELSE IF \E k \in 1..Len(unique) : unique[k] = found[i]
         THEN UniqueFrom(found, i + 1, unique)
         ELSE UniqueFrom(found, i + 1, Append(unique, found[i]))

ExtractLinks(pageUrl, contentOk, anchors) ==
    IF ~contentOk THEN << >>
    ELSE UniqueFrom(FoundFrom(pageUrl, anchors, 1, << >>), 1, << >>)

(***************************************************************************)
(* BacklinkRunner._find_best_field.                                        *)
(*   flds      the page's form elements in document order, each a record   *)
(*             [tag, label, placeholder, name, id, aria]; label is the     *)
(*             text of the element's <label>, "" when it has none, and an  *)
(*             absent attribute is ""                                      *)
(*   hints     keyword_variants                                            *)
(*   labelErr  positions of hints whose get_by_label lookup raises         *)
(*   xpathErr  TRUE when the XPath locator lookup raises                   *)
(* The result is the position of the element in flds, 0 for None.          *)
(***************************************************************************)
UrlHints == << "url", "website", "site", "link" >>
KwHints == << "keyword", "keywords", "tags", "anchor" >>

\* re.compile(kw, re.I) searched in the texts get_by_label consults: the
\* associated <label> text and the aria-label attribute
LabelMatches(el, kw) ==
    \/ Contains(ToLower(el.label), ToLower(kw))
    \/ Contains(ToLower(el.aria), ToLower(kw))

\* contains(translate(@a,'A..Z','a..z'), kw) or'ed over the four attributes
AttrMatches(el, kw) ==
    \/ Contains(ToLower(el.placeholder), kw)
    \/ Contains(ToLower(el.name), kw)
    \/ Contains(ToLower(el.id), kw)
    \/ Contains(ToLower(el.aria), kw)

First(S) == IF S = {} THEN 0 ELSE CHOOSE i \in S : \A j \in S : i <= j

\* page.get_by_label(...).first with count() > 0
ByLabel(flds, kw) == First({ i \in 1..Len(flds) : LabelMatches(flds[i], kw) })

\* mutation: the XPath union matches elements of any tag
ByXPathAnyTag(flds, hints) ==
    First({ i \in 1..Len(flds) : \E k \in 1..Len(hints) : AttrMatches(flds[i], hints[k]) })

\* (//input[kw_union] | //textarea[kw_union])[1]
ByXPath(flds, hints) ==
    First({ i \in 1..Len(flds) :
              /\ flds[i].tag \in {"input", "textarea"}
              /\ \E k \in 1..Len(hints) : AttrMatches(flds[i], hints[k]) })

RECURSIVE LabelLoop(_, _, _, _)
LabelLoop(flds, hints, labelErr, k) ==
    IF k > Len(hints) THEN 0
    ELSE IF k \notin labelErr /\ ByLabel(flds, hints[k]) # 0
         THEN ByLabel(flds, hints[k])
         ELSE LabelLoop(flds, hints, labelErr, k + 1)

FindBestField(flds, hints, labelErr, xpathErr) ==
    IF LabelLoop(flds, hints, labelErr, 1) # 0
    THEN LabelLoop(flds, hints, labelErr, 1)
    ELSE IF xpathErr THEN 0 ELSE ByXPath(flds, hints)

(***************************************************************************)
(* BacklinkRunner._click_submit.                                           *)
(*   resp  what the page answers: a set of records [kind, txt, o]: the     *)
(*         strategy (kind, txt) raises (o = "raise": the lookup, count or  *)
(*         click throws) or finds an element and clicks it (o = "hit");    *)
(*         a strategy with no record finds nothing (count() = 0).          *)
(* The result is [ret, tried, clicked]: the value returned, the strategies *)
(* tried in order, and the strategy whose click completed (kind "" when    *)
(* none did).                                                              *)
(***************************************************************************)
ButtonTexts ==
    << "submit", "generate", "create", "make", "build", "start", "go", "check",
       "search", "run" >>

Strategy(kind, txt) == [kind |-> kind, txt |-> txt]
NoStrategy == Strategy("", "")

Outcome(resp, s) ==
    IF [kind |-> s.kind, txt |-> s.txt, o |-> "raise"] \in resp THEN "raise"
    ELSE IF [kind |-> s.kind, txt |-> s.txt, o |-> "hit"] \in resp THEN "hit"
    ELSE "miss"

\* mutation: the text-content match is tried before the role match
TextStrategiesTextFirst(txt) ==
    << Strategy("text", txt), Strategy("role", txt), Strategy("value", txt) >>

\* the three try-blocks of one iteration of "for txt in button_texts"
TextStrategies(txt) ==
    << Strategy("role", txt), Strategy("text", txt), Strategy("value", txt) >>

RECURSIVE TextLoop(_, _, _, _)
TextLoop(resp, k, j, tried) ==
    IF k > Len(ButtonTexts)
    THEN \* page.keyboard.press("Enter")
         LET s == Strategy("enter", "") IN
            IF Outcome(resp, s) = "raise"
            THEN [ret |-> FALSE, tried |-> Append(tried, s), clicked |-> NoStrategy]
            ELSE [ret |-> TRUE, tried |-> Append(tried, s), clicked |-> NoStrategy]
    ELSE IF j > Len(TextStrategies(ButtonTexts[k]))
         THEN TextLoop(resp, k + 1, 1, tried)
         ELSE LET s == TextStrategies(ButtonTexts[k])[j] IN
                IF Outcome(resp, s) = "hit"
                THEN [ret |-> TRUE, tried |-> Append(tried, s), clicked |-> s]
                ELSE TextLoop(resp, k, j + 1, Append(tried, s))

ClickSubmit(resp) ==
    LET s == Strategy("native", "") IN
        IF Outcome(resp, s) = "hit"
        THEN [ret |-> TRUE, tried |-> << s >>, clicked |-> s]
        ELSE TextLoop(resp, 1, 1, << s >>)

(***************************************************************************)
(* The environment of a run: the literals and pages the model draws from.  *)
(***************************************************************************)
RECURSIVE SeqsUpTo(_, _)
SeqsUpTo(S, n) ==
    IF n = 0 THEN { << >> }
    ELSE SeqsUpTo(S, n - 1) \cup
         { Append(q, x) : q \in { r \in SeqsUpTo(S, n - 1) : Len(r) = n - 1 }, x \in S }

\* two entries of raw_tools (the first occurs twice in the literal)
ToolUrls == { "http://sitowebinfo.com/back/", "https://useme.org/" }

Target(url, keywords) == [url |-> url, keywords |-> keywords]
TargetSet == { Target("https://example.com", ""), Target("https://example.com", "seo") }

Element(tag, label, placeholder, name, id, aria) ==
    [tag |-> tag, label |-> label, placeholder |-> placeholder, name |-> name,
     id |-> id, aria |-> aria]

Elements ==
    { Element("input", "", "", "site_url", "", ""),
      Element("input", "", "", "anchor_link", "", ""),
      Element("textarea", "Keywords", "", "kw", "", ""),
      Element("input", "Website URL", "", "q", "", ""),
      Element("select", "", "", "website", "", ""),
      Element("input", "", "Enter TAGS", "", "t1", "") }

\* the forms a tool page shows in a run
Forms ==
    { << >>,
      << Element("input", "", "", "site_url", "", ""),
         Element("textarea", "Keywords", "", "kw", "", "") >>,
      << Element("input", "", "", "anchor_link", "", "") >>,
      << Element("select", "", "", "website", "", ""),
         Element("input", "Website URL", "", "q", "", "") >> }

\* where a submission may have taken the page by the time links are extracted
ResultUrls(toolUrl) == { toolUrl, "https://results.example.net/done" }

\* the anchors of a result page in a run
ResultAnchors ==
    { << "https://other.com/y" >>,
      << "/relative", "http://sitowebinfo.com/" >> }

\* answers of a page to _click_submit in a run
NoControls == { }
SubmitAnswers ==
    { NoControls,
      { [kind |-> "native", txt |-> "", o |-> "hit"] },
      { [kind |-> "native", txt |-> "", o |-> "raise"],
        [kind |-> "text", txt |-> "go", o |-> "hit"] },
      { [kind |-> "enter", txt |-> "", o |-> "raise"] } }

(***************************************************************************)
(* Control flow decided by the exception handlers of the code.             *)
(***************************************************************************)
\* mutation: no finally clause around the steps of _run_single_tool
AfterStepRaisesNoFinally == "except"

\* _run_single_tool: a step inside try ... finally raises: the finally runs
AfterStepRaises == "close"

\* mutation: the exception of a tool leaves run_for_target
AfterToolRaisesPropagate == "propagate"

\* run_for_target: "except Exception: continue"
AfterToolRaises == "continue"

\* mutation: the three teardowns in sequence, without finally
AfterContextCloseNoFinally(raised) ==
    IF raised THEN "shutdown_return" ELSE "shutdown_browser"

\* shutdown: try: context.close() finally: ...
AfterContextClose(raised) == "shutdown_browser"

\* shutdown: try: browser.close() finally: playwright.stop()
AfterBrowserClose(raised) == "shutdown_playwright"

\* mutation: shutdown called without the try ... except around it
AfterShutdownUncaught(raised) == IF raised THEN "crashed" ELSE "aggregate"

\* app.py: try: runner.shutdown() except: pass
AfterShutdown(raised) == "aggregate"

(***************************************************************************)
(* app.py: the aggregate block.                                            *)
(***************************************************************************)
RECURSIVE DropDuplicatesFrom(_, _, _)
DropDuplicatesFrom(rows, i, kept) ==
    IF i > Len(rows) THEN kept
    ELSE IF \E k \in 1..Len(kept) : kept[k].backlink_url = rows[i].backlink_url
         THEN DropDuplicatesFrom(rows, i + 1, kept)
         ELSE DropDuplicatesFrom(rows, i + 1, Append(kept, rows[i]))

Report(rows) ==
    IF rows # << >>
    THEN [kind |-> "table", total |-> Len(rows),
          unique |-> DropDuplicatesFrom(rows, 1, << >>)]
    ELSE [kind |-> "info", total |-> 0, unique |-> << >>]

NoReport == [kind |-> "none", total |-> 0, unique |-> << >>]

(***************************************************************************)
(* The run: app.py's run_clicked block driving BacklinkRunner.             *)
(***************************************************************************)
BacklinkResult(target, tool, link) ==
    [target_url |-> target.url, keywords |-> target.keywords, tool_url |-> tool,
     backlink_url |-> link]

pageVars == << fields, value, urlInput, kwInput, submitted, backlinks, failedAt >>
fnVars == << arg, out >>
shutdownVars == << teardown, teardownErr >>

NoPage ==
    /\ fields = << >>
    /\ value = << >>
    /\ urlInput = 0
    /\ kwInput = 0
    /\ submitted = FALSE
    /\ backlinks = << >>
    /\ failedAt = ""

ResetPage ==
    /\ fields' = << >>
    /\ value' = << >>
    /\ urlInput' = 0
    /\ kwInput' = 0
    /\ submitted' = FALSE
    /\ backlinks' = << >>
    /\ failedAt' = ""

Quiet ==
    /\ tools = << >>
    /\ targetIdx = 0
    /\ results = << >>
    /\ runResults = << >>
    /\ toolIdx = 0
    /\ attempts = << >>
    /\ openPages = 0
    /\ closeCalls = 0
    /\ NoPage
    /\ failed = { }
    /\ teardown = << >>
    /\ teardownErr = { }
    /\ uiError = ""
    /\ reported = NoReport

Idle ==
    /\ pc = "start"
    /\ Quiet
    /\ arg = << >>
    /\ out = << >>

\* the entries of raw_tools drawn above, in the order of the literal
RawToolsLiteral ==
    << "http://sitowebinfo.com/back/", "https://useme.org/",
       "http://sitowebinfo.com/back/" >>

\* a run over one target, for any raw tool list
Init ==
    /\ Idle
    /\ rawTools \in SeqsUpTo(ToolUrls, MaxRaw)
    /\ targets \in { << >> } \cup { << t >> : t \in TargetSet }

\* a run of the literal's catalog over any list of targets
InitApp ==
    /\ Idle
    /\ rawTools = RawToolsLiteral
    /\ targets \in SeqsUpTo(TargetSet, MaxTargets)

\* app.py 72-93: no target: warning and stop; the runner's constructor raises:
\* error and stop; otherwise the runner exists and its catalog is loaded
RunClicked ==
    /\ pc = "start"
    /\ \/ /\ targets = << >>
          /\ pc' = "stopped"
          /\ UNCHANGED << tools, targetIdx >>
       \/ /\ targets # << >>
          /\ pc' = "init_failed"
          /\ UNCHANGED << tools, targetIdx >>
       \/ /\ targets # << >>
          /\ tools' = LoadTools(rawTools)
          /\ targetIdx' = 1
          /\ pc' = "target_loop"
    /\ UNCHANGED << rawTools, targets, results, runResults, toolIdx, attempts,
                    openPages, closeCalls, pageVars, failed, shutdownVars, uiError,
                    reported, fnVars >>

\* app.py 96-100: the next target enters run_for_target, or the loop is over
\* and the finally clause starts the shutdown
NextTarget ==
    /\ pc = "target_loop"
    /\ IF targetIdx > Len(targets)
       THEN /\ pc' = "shutdown_context"
            /\ UNCHANGED << runResults, toolIdx, attempts, failed >>
       ELSE /\ runResults' = << >>
            /\ toolIdx' = 1
            /\ attempts' = << >>
            /\ failed' = { }
            /\ pc' = "tool_loop"
    /\ UNCHANGED << rawTools, tools, targets, targetIdx, results, openPages,
                    closeCalls, pageVars, shutdownVars, uiError, reported, fnVars >>

\* run_for_target 94 and app.py 101-107: the catalog is exhausted, the
\* results go to the app, whose progress update succeeds or raises
ReturnResults ==
    /\ pc = "tool_loop"
    /\ toolIdx > Len(tools)
    /\ results' = results \o runResults
    /\ \/ /\ targetIdx' = targetIdx + 1
          /\ pc' = "target_loop"
          /\ UNCHANGED uiError
       \/ /\ uiError' = "progress"
          /\ pc' = "shutdown_context"
          /\ UNCHANGED targetIdx
    /\ UNCHANGED << rawTools, tools, targets, runResults, toolIdx, attempts,
                    openPages, closeCalls, pageVars, failed, shutdownVars,
                    reported, fnVars >>

\* run_for_target 87-89 and _run_single_tool 99: the next tool is attempted;
\* new_page returns a page or raises
NewPage ==
    /\ pc = "tool_loop"
    /\ toolIdx <= Len(tools)
    /\ attempts' = Append(attempts, tools[toolIdx])
    /\ \/ /\ openPages' = openPages + 1
          /\ pc' = "set_timeout"
          /\ UNCHANGED failedAt
       \/ /\ failedAt' = "new_page"
          /\ pc' = "except"
          /\ UNCHANGED openPages
    /\ UNCHANGED << rawTools, tools, targets, targetIdx, results, runResults,
                    toolIdx, closeCalls, fields, value, urlInput, kwInput, submitted,
                    backlinks, failed, shutdownVars, uiError, reported, fnVars >>

\* _run_single_tool 100: set_default_timeout stores the timeout of the page
SetDefaultTimeout ==
    /\ pc = "set_timeout"
    /\ pc' = "goto"
    /\ UNCHANGED << rawTools, tools, targets, targetIdx, results, runResults,
                    toolIdx, attempts, openPages, closeCalls, pageVars, failed,
                    shutdownVars, uiError, reported, fnVars >>

\* _run_single_tool 102: navigation shows the tool's form, or raises
Goto ==
    /\ pc = "goto"
    /\ \/ /\ \E f \in Forms :
                /\ fields' = f
                /\ value' = [i \in 1..Len(f) |-> ""]
          /\ pc' = "find_url"
          /\ UNCHANGED failedAt
       \/ /\ failedAt' = "goto"
          /\ pc' = AfterStepRaises
          /\ UNCHANGED << fields, value >>
    /\ UNCHANGED << rawTools, tools, targets, targetIdx, results, runResults,
                    toolIdx, attempts, openPages, closeCalls, urlInput, kwInput,
                    submitted, backlinks, failed, shutdownVars, uiError, reported,
                    fnVars >>

outsidePage ==
    << rawTools, tools, targets, targetIdx, results, runResults, toolIdx, attempts,
       openPages, closeCalls, failed, shutdownVars, uiError, reported, fnVars >>

\* _run_single_tool 104: url_input = _find_best_field(page, [url, website, site, link])
FindUrl ==
    /\ pc = "find_url"
    /\ \E labelErr \in SUBSET (1..Len(UrlHints)), xpathErr \in BOOLEAN :
          urlInput' = FindBestField(fields, UrlHints, labelErr, xpathErr)
    /\ pc' = "fill_url"
    /\ UNCHANGED << fields, value, kwInput, submitted, backlinks, failedAt >>
    /\ UNCHANGED outsidePage

\* _run_single_tool 105-107: clear the URL field and type the target URL
FillUrl ==
    /\ pc = "fill_url"
    /\ IF urlInput = 0
       THEN /\ pc' = "find_kw"
            /\ UNCHANGED << value, failedAt >>
       ELSE \/ /\ value' = [value EXCEPT ![urlInput] = "" \o targets[targetIdx].url]
               /\ pc' = "find_kw"
               /\ UNCHANGED failedAt
            \/ \* fill("") raises, or it clears the field and type raises
               /\ \E c \in { value[urlInput], "" } :
                     value' = [value EXCEPT ![urlInput] = c]
               /\ failedAt' = "fill_url"
               /\ pc' = AfterStepRaises
    /\ UNCHANGED << fields, urlInput, kwInput, submitted, backlinks >>
    /\ UNCHANGED outsidePage

\* _run_single_tool 109: kw_input = _find_best_field(page, [keyword, keywords, tags, anchor])
FindKw ==
    /\ pc = "find_kw"
    /\ \E labelErr \in SUBSET (1..Len(KwHints)), xpathErr \in BOOLEAN :
          kwInput' = FindBestField(fields, KwHints, labelErr, xpathErr)
    /\ pc' = "fill_kw"
    /\ UNCHANGED << fields, value, urlInput, submitted, backlinks, failedAt >>
    /\ UNCHANGED outsidePage

\* _run_single_tool 110-112: clear the keyword field and type the keywords
FillKw ==
    /\ pc = "fill_kw"
    /\ IF kwInput = 0 \/ targets[targetIdx].keywords = ""
       THEN /\ pc' = "click_submit"
            /\ UNCHANGED << value, failedAt >>
       ELSE \/ /\ value' = [value EXCEPT ![kwInput] = "" \o targets[targetIdx].keywords]
               /\ pc' = "click_submit"
               /\ UNCHANGED failedAt
            \/ /\ \E c \in { value[kwInput], "" } :
                     value' = [value EXCEPT ![kwInput] = c]
               /\ failedAt' = "fill_kw"
               /\ pc' = AfterStepRaises
    /\ UNCHANGED << fields, urlInput, kwInput, submitted, backlinks >>
    /\ UNCHANGED outsidePage

\* _run_single_tool 115: submitted = _click_submit(page)
Submit ==
    /\ pc = "click_submit"
    /\ \E resp \in SubmitAnswers : submitted' = ClickSubmit(resp).ret
    /\ pc' = "press_enter"
    /\ UNCHANGED << fields, value, urlInput, kwInput, backlinks, failedAt >>
    /\ UNCHANGED outsidePage

\* _run_single_tool 116-119: Enter on the URL field when nothing was submitted
PressEnter ==
    /\ pc = "press_enter"
    /\ IF submitted \/ urlInput = 0
       THEN /\ pc' = "wait"
            /\ UNCHANGED failedAt
       ELSE \/ /\ pc' = "wait"
               /\ UNCHANGED failedAt
            \/ /\ failedAt' = "press_enter"
               /\ pc' = AfterStepRaises
    /\ UNCHANGED << fields, value, urlInput, kwInput, submitted, backlinks >>
    /\ UNCHANGED outsidePage

\* _run_single_tool 121 and _wait_for_results: the network goes idle or the
\* wait times out (swallowed), then the grace sleep; any other error of the
\* wait propagates
WaitForResults ==
    /\ pc = "wait"
    /\ \/ /\ pc' = "extract"
          /\ UNCHANGED failedAt
       \/ /\ failedAt' = "wait"
          /\ pc' = AfterStepRaises
    /\ UNCHANGED << fields, value, urlInput, kwInput, submitted, backlinks >>
    /\ UNCHANGED outsidePage

\* _run_single_tool 124: backlinks = _extract_links(page), of the page as the
\* submission left it; parsing the content may raise
Extract ==
    /\ pc = "extract"
    /\ \/ /\ \E u \in ResultUrls(tools[toolIdx]), ok \in BOOLEAN, a \in ResultAnchors :
                backlinks' = ExtractLinks(u, ok, a)
          /\ pc' = "close"
          /\ UNCHANGED failedAt
       \/ /\ failedAt' = "extract"
          /\ pc' = AfterStepRaises
          /\ UNCHANGED backlinks
    /\ UNCHANGED << fields, value, urlInput, kwInput, submitted >>
    /\ UNCHANGED outsidePage

\* _run_single_tool 135-139: finally: page.close(), an error of it swallowed;
\* then the return value or the pending exception leaves the function
PageClose ==
    /\ pc = "close"
    /\ closeCalls' = closeCalls + 1
    /\ openPages' = openPages - 1
    /\ pc' = IF failedAt # "" THEN "except" ELSE "return"
    /\ UNCHANGED << rawTools, tools, targets, targetIdx, results, runResults,
                    toolIdx, attempts, pageVars, failed, shutdownVars, uiError,
                    reported, fnVars >>

\* _run_single_tool 125-134 and run_for_target 90: the records of the tool
ToolReturn ==
    /\ pc = "return"
    /\ runResults' = runResults \o
          [i \in 1..Len(backlinks) |->
              BacklinkResult(targets[targetIdx], tools[toolIdx], backlinks[i])]
    /\ toolIdx' = toolIdx + 1
    /\ ResetPage
    /\ pc' = "tool_loop"
    /\ UNCHANGED << rawTools, tools, targets, targetIdx, results, attempts,
                    openPages, closeCalls, failed, shutdownVars, uiError, reported,
                    fnVars >>

\* run_for_target 91-93: the exception of the tool's iteration
ToolExcept ==
    /\ pc = "except"
    /\ failed' = failed \cup { tools[toolIdx] }
    /\ ResetPage
    /\ IF AfterToolRaises = "continue"
       THEN /\ toolIdx' = toolIdx + 1
            /\ pc' = "tool_loop"
            /\ UNCHANGED uiError
       ELSE \* the exception leaves run_for_target: app.py 106-107
            /\ uiError' = "run_for_target"
            /\ pc' = "shutdown_context"
            /\ UNCHANGED toolIdx
    /\ UNCHANGED << rawTools, tools, targets, targetIdx, results, runResults,
                    attempts, openPages, closeCalls, shutdownVars, reported, fnVars >>

outsideShutdown ==
    << rawTools, tools, targets, targetIdx, results, runResults, toolIdx, attempts,
       openPages, closeCalls, pageVars, failed, uiError, reported, fnVars >>

Raised(errs, name, raised) == IF raised THEN errs \cup { name } ELSE errs

\* shutdown 30-31: self.context.close()
ContextClose ==
    /\ pc = "shutdown_context"
    /\ teardown' = Append(teardown, "context")
    /\ \E raised \in BOOLEAN :
          /\ teardownErr' = Raised(teardownErr, "context", raised)
          /\ pc' = AfterContextClose(raised)
    /\ UNCHANGED outsideShutdown

\* shutdown 33-34: self.browser.close()
BrowserClose ==
    /\ pc = "shutdown_browser"
    /\ teardown' = Append(teardown, "browser")
    /\ \E raised \in BOOLEAN :
          /\ teardownErr' = Raised(teardownErr, "browser", raised)
          /\ pc' = AfterBrowserClose(raised)
    /\ UNCHANGED outsideShutdown

\* shutdown 36: self.playwright.stop()
PlaywrightStop ==
    /\ pc = "shutdown_playwright"
    /\ teardown' = Append(teardown, "playwright")
    /\ \E raised \in BOOLEAN : teardownErr' = Raised(teardownErr, "playwright", raised)
    /\ pc' = "shutdown_return"
    /\ UNCHANGED outsideShutdown

\* app.py 108-112: shutdown returns, or raises the error of a teardown
ShutdownReturn ==
    /\ pc = "shutdown_return"
    /\ pc' = IF teardownErr = { } THEN "aggregate" ELSE AfterShutdown(TRUE)
    /\ UNCHANGED << shutdownVars, outsideShutdown >>

\* app.py 114-137: the table of the collected records, or the info message
Aggregate ==
    /\ pc = "aggregate"
    /\ reported' = Report(results)
    /\ pc' = "done"
    /\ UNCHANGED << rawTools, tools, targets, targetIdx, results, runResults,
                    toolIdx, attempts, openPages, closeCalls, pageVars, failed,
                    shutdownVars, uiError, fnVars >>

Next ==
    \/ RunClicked
    \/ NextTarget
    \/ ReturnResults
    \/ NewPage
    \/ SetDefaultTimeout
    \/ Goto
    \/ FindUrl
    \/ FillUrl
    \/ FindKw
    \/ FillKw
    \/ Submit
    \/ PressEnter
    \/ WaitForResults
    \/ Extract
    \/ PageClose
    \/ ToolReturn
    \/ ToolExcept
    \/ ContextClose
    \/ BrowserClose
    \/ PlaywrightStop
    \/ ShutdownReturn
    \/ Aggregate

Spec == Init /\ [][Next]_vars

SpecApp == InitApp /\ [][Next]_vars

(***************************************************************************)
(* The functions on their own: each specification draws the inputs of one  *)
(* function in its initial state and applies the function to them.         *)
(***************************************************************************)
mainVars ==
    << rawTools, tools, targets, targetIdx, results, runResults, toolIdx, attempts,
       openPages, closeCalls, pageVars, failed, shutdownVars, uiError, reported >>

NoRun ==
    /\ Quiet
    /\ rawTools = << >>
    /\ targets = << >>
    /\ out = << >>

\* _find_best_field
FindInputs ==
    [flds : SeqsUpTo(Elements, MaxFields), hints : { UrlHints, KwHints },
     labelErr : SUBSET (1..Len(UrlHints)), xpathErr : BOOLEAN]

InitFind ==
    /\ pc = "find_call"
    /\ arg \in FindInputs
    /\ NoRun

FindCall ==
    /\ pc = "find_call"
    /\ out' = FindBestField(arg.flds, arg.hints, arg.labelErr, arg.xpathErr)
    /\ pc' = "find_ret"
    /\ UNCHANGED << arg, mainVars >>

NextFind == FindCall

SpecFind == InitFind /\ [][NextFind]_vars

\* _extract_links
PageUrls ==
    { "https://tools.example.com/", "https://tools.example.com/maker?step=2",
      "about:blank" }

ExampleAnchors ==
    << "https://tools.example.com/x", "https://other.com/y", "#frag",
       "javascript:void(0)", "mailto:a@b.com", "/relative" >>

Hrefs ==
    { ExampleAnchors[i] : i \in 1..Len(ExampleAnchors) } \cup
    { "", " https://other.com/y ", "page.html", "//cdn.example.net/lib.js",
      "https://TOOLS.EXAMPLE.COM/x", "https://tools.example.com:443/x",
      "JavaScript://other.com/%0Aalert(1)", "Mailto:a@b.com" }

ExtractInputs ==
    [pageUrl : PageUrls, contentOk : BOOLEAN,
     anchors : SeqsUpTo(Hrefs, MaxAnchors) \cup { ExampleAnchors }]

InitExtract ==
    /\ pc = "extract_call"
    /\ arg \in ExtractInputs
    /\ NoRun

ExtractCall ==
    /\ pc = "extract_call"
    /\ out' = ExtractLinks(arg.pageUrl, arg.contentOk, arg.anchors)
    /\ pc' = "extract_ret"
    /\ UNCHANGED << arg, mainVars >>

NextExtract == ExtractCall

SpecExtract == InitExtract /\ [][NextExtract]_vars

\* _click_submit
StrategySet ==
    { Strategy("native", ""), Strategy("enter", "") } \cup
    { Strategy(kind, ButtonTexts[k]) :
        kind \in { "role", "text", "value" }, k \in 1..Len(ButtonTexts) }

Events ==
    { [kind |-> s.kind, txt |-> s.txt, o |-> o] : s \in StrategySet, o \in { "hit", "raise" } }

RECURSIVE SetsUpTo(_, _)
SetsUpTo(S, n) ==
    IF n = 0 THEN { { } }
    ELSE SetsUpTo(S, n - 1) \cup { q \cup { x } : q \in SetsUpTo(S, n - 1), x \in S }

InitSubmit ==
    /\ pc = "submit_call"
    /\ arg \in SetsUpTo(Events, MaxEvents)
    /\ NoRun

SubmitCall ==
    /\ pc = "submit_call"
    /\ out' = ClickSubmit(arg)
    /\ pc' = "submit_ret"
    /\ UNCHANGED << arg, mainVars >>

NextSubmit == SubmitCall

SpecSubmit == InitSubmit /\ [][NextSubmit]_vars

(***************************************************************************)
(* Properties.                                                             *)
(***************************************************************************)
\* the network host a URL resolves to: the netloc without user info and
\* port, in lower case
HostOf(url) ==
    LET netloc == UrlNetloc(url)
        ats == { i \in 1..Len(netloc) : CharAt(netloc, i) = "@" }
        from == IF ats = { } THEN 1 ELSE (CHOOSE i \in ats : \A j \in ats : j <= i) + 1
        hostport == SubSeq(netloc, from, Len(netloc))
        colon == Find(hostport, ":")
    IN  ToLower(IF colon = 0 THEN hostport ELSE SubSeq(hostport, 1, colon - 1))

ContainsCI(s, h) == Contains(ToLower(s), ToLower(h))

IsPrefix(p, q) == Len(p) <= Len(q) /\ SubSeq(q, 1, Len(p)) = p

RunReturns == pc = "tool_loop" /\ toolIdx > Len(tools)

\* C1: run_for_target attempts every tool of the catalog exactly once, in
\* catalog order, whichever tools fail and wherever they fail; a tool whose
\* iteration failed has no record in the returned sequence; and the call
\* returns (the empty sequence when no tool produced a record), it never
\* raises.
C1_ToolFailuresIsolated ==
    /\ uiError # "run_for_target"
    /\ IsPrefix(attempts, tools)
    /\ pc = "tool_loop" => Len(attempts) = toolIdx - 1
    /\ RunReturns => attempts = tools
    /\ \A i \in 1..Len(runResults) : runResults[i].tool_url \notin failed
    /\ (RunReturns /\ \A k \in 1..Len(tools) : tools[k] \in failed) => runResults = << >>

C1_Witness ==
    /\ RunReturns
    /\ Len(tools) = 2
    /\ failed = { tools[1] }
    /\ runResults # << >>

PagePcs ==
    { "set_timeout", "goto", "find_url", "fill_url", "find_kw", "fill_kw",
      "click_submit", "press_enter", "wait", "extract", "close" }

\* C2: close is called on every page opened for a tool before the tool's
\* iteration ends, whether it completes or fails at navigation, filling,
\* submission, the settle wait or extraction; so at most one page is open at
\* any moment and a tool's page is opened only after the previous one was
\* closed.
C2_PageClosedEveryIteration ==
    /\ openPages \in { 0, 1 }
    /\ pc \in { "except", "return", "tool_loop" } => openPages = 0
    /\ openPages = 1 => pc \in PagePcs
    /\ pc \in { "except", "return" } /\ failedAt # "new_page" => closeCalls >= 1

C2_Witness ==
    /\ pc = "except"
    /\ failedAt = "extract"
    /\ toolIdx = 2
    /\ closeCalls = 2
    /\ openPages = 0

\* C3: every BacklinkResult returned by run_for_target has a backlink_url
\* whose host differs from the host of its own tool_url, also when the
\* submission took the page to another host before extraction.
C3_BacklinkHostDiffersFromTool ==
    /\ \A i \in 1..Len(runResults) :
          HostOf(runResults[i].backlink_url) # HostOf(runResults[i].tool_url)
    /\ \A i \in 1..Len(results) :
          HostOf(results[i].backlink_url) # HostOf(results[i].tool_url)

\* C4: _extract_links returns no link whose host is the host of the page's
\* current URL: the anchors of the example on a page of tools.example.com
\* give exactly ["https://other.com/y"], and no result is a javascript:,
\* fragment-only, mailto:, host-less or same-host destination.
C4_NoSameHostLink ==
    pc = "extract_ret" =>
        /\ (arg.anchors = ExampleAnchors /\ arg.contentOk
              /\ HostOf(arg.pageUrl) = "tools.example.com")
              => out = << "https://other.com/y" >>
        /\ \A i \in 1..Len(out) :
              /\ HostOf(out[i]) # ""
              /\ HostOf(out[i]) # HostOf(arg.pageUrl)
              /\ UrlScheme(out[i]) \notin { "javascript", "mailto" }
              /\ ~StartsWith(out[i], "#")

TeardownOrder == << "context", "browser", "playwright" >>

\* C5: shutdown attempts context close, browser close and playwright stop,
\* in this order, and attempts each later one also when an earlier one
\* raised.
C5_ShutdownAttemptsAll ==
    /\ IsPrefix(teardown, TeardownOrder)
    /\ pc \in { "shutdown_return", "aggregate", "done", "crashed" } => teardown = TeardownOrder
    /\ teardownErr \subseteq { teardown[i] : i \in 1..Len(teardown) }

C5_Witness ==
    /\ pc = "shutdown_return"
    /\ teardownErr = { "context", "browser" }
    /\ teardown = TeardownOrder

\* C6: a failing teardown is never propagated: after a run the teardown is
\* always attempted, its failure shows no error to the caller, and the
\* records collected before it are still aggregated and reported.
C6_TeardownFailureSwallowed ==
    /\ pc # "crashed"
    /\ uiError \in { "", "progress" }
    /\ pc \in { "aggregate", "done" } => teardown # << >>
    /\ pc = "done" =>
          /\ reported.kind = IF results = << >> THEN "info" ELSE "table"
          /\ reported.total = Len(results)
          /\ { reported.unique[i].backlink_url : i \in 1..Len(reported.unique) }
                = { results[i].backlink_url : i \in 1..Len(results) }

C6_Witness ==
    /\ pc = "done"
    /\ teardownErr = { "context", "browser", "playwright" }
    /\ reported.kind = "table"

Kinds == << "role", "text", "value" >>

ExpectedOrder ==
    << Strategy("native", "") >> \o
    [i \in 1..(Len(Kinds) * Len(ButtonTexts)) |->
        Strategy(Kinds[((i - 1) % Len(Kinds)) + 1], ButtonTexts[((i - 1) \div Len(Kinds)) + 1])] \o
    << Strategy("enter", "") >>

Answers(s, o) == [kind |-> s.kind, txt |-> s.txt, o |-> o] \in arg

Clicks(s) == Answers(s, "hit") /\ ~Answers(s, "raise")

\* C7: _click_submit tries the native submit element, then per label keyword
\* in list order the role match, the text match and the value match, then the
\* Enter key, and stops at the first click that completes; a strategy that
\* raises is swallowed and the next one tried; the result is false only when
\* no click completed and the Enter press failed too.
C7_SubmitOrder ==
    pc = "submit_ret" =>
        LET hits == { p \in 1..(Len(ExpectedOrder) - 1) : Clicks(ExpectedOrder[p]) } IN
            IF hits # { }
            THEN LET p == CHOOSE q \in hits : \A r \in hits : q <= r IN
                    /\ out.tried = SubSeq(ExpectedOrder, 1, p)
                    /\ out.clicked = ExpectedOrder[p]
                    /\ out.ret = TRUE
            ELSE /\ out.tried = ExpectedOrder
                 /\ out.clicked = NoStrategy
                 /\ out.ret = ~Answers(Strategy("enter", ""), "raise")

C7_Witness ==
    /\ pc = "submit_ret"
    /\ arg = { [kind |-> "role", txt |-> "go", o |-> "raise"],
               [kind |-> "text", txt |-> "go", o |-> "hit"] }
    /\ out.clicked = Strategy("text", "go")
    /\ out.ret = TRUE

\* C8: _find_best_field returns the label match of the earliest hint that
\* has one (a lookup that raises finds nothing); only when no hint has one,
\* the first input or textarea in document order whose placeholder, name, id
\* or aria-label contains a hint, case-insensitively; and none when nothing
\* matches. With the hints url, website, site, link an input named site_url
\* is returned.
C8_FirstMatchWins ==
    pc = "find_ret" =>
        LET flds == arg.flds
            hints == arg.hints
            Labelled(i, k) ==
                ContainsCI(flds[i].label, hints[k]) \/ ContainsCI(flds[i].aria, hints[k])
            withLabel == { k \in 1..Len(hints) :
                            k \notin arg.labelErr /\ \E i \in 1..Len(flds) : Labelled(i, k) }
            structural == { i \in 1..Len(flds) :
                            /\ flds[i].tag \in { "input", "textarea" }
                            /\ \E k \in 1..Len(hints) :
                                  \/ ContainsCI(flds[i].placeholder, hints[k])
                                  \/ ContainsCI(flds[i].name, hints[k])
                                  \/ ContainsCI(flds[i].id, hints[k])
                                  \/ ContainsCI(flds[i].aria, hints[k]) }
        IN  /\ withLabel # { } =>
                LET k == CHOOSE a \in withLabel : \A b \in withLabel : a <= b IN
                    /\ out \in 1..Len(flds)
                    /\ Labelled(out, k)
                    /\ \A i \in 1..(out - 1) : ~Labelled(i, k)
            /\ (withLabel = { } /\ ~arg.xpathErr /\ structural # { }) =>
                /\ out \in structural
                /\ \A i \in structural : out <= i
            /\ (withLabel = { } /\ (arg.xpathErr \/ structural = { })) => out = 0
            /\ (hints = UrlHints /\ arg.labelErr = { } /\ ~arg.xpathErr /\ Len(flds) >= 1
                  /\ flds[1] = Element("input", "", "", "site_url", "", "")
                  /\ \A i \in 1..Len(flds) : flds[i].label = "")
                => out = 1

C8_Witness ==
    /\ pc = "find_ret"
    /\ arg.hints = UrlHints
    /\ arg.labelErr = { }
    /\ ~arg.xpathErr
    /\ arg.flds = << Element("select", "", "", "website", "", ""),
                     Element("input", "", "", "site_url", "", "") >>
    /\ out = 2

FirstPos(q, x) == CHOOSE i \in 1..Len(q) : q[i] = x /\ \A j \in 1..(i - 1) : q[j] # x

\* C9: the catalog holds each distinct URL of the raw list exactly once, in
\* the order of first occurrence, and no later operation of the run changes
\* it.
C9_CatalogDeduplicated ==
    pc \notin { "start", "stopped", "init_failed" } =>
        /\ { tools[i] : i \in 1..Len(tools) } = { rawTools[i] : i \in 1..Len(rawTools) }
        /\ \A i, j \in 1..Len(tools) : i # j => tools[i] # tools[j]
        /\ \A i, j \in 1..Len(tools) :
              i < j => FirstPos(rawTools, tools[i]) < FirstPos(rawTools, tools[j])

C9_Witness ==
    /\ pc = "done"
    /\ Len(rawTools) = 3
    /\ rawTools[1] = rawTools[3]
    /\ rawTools[1] # rawTools[2]
    /\ tools = << rawTools[1], rawTools[2] >>
    /\ closeCalls = 2

\* C10: whenever a URL field was located, its content when the submission
\* is triggered is the target URL: filling the keyword field never clears or
\* overwrites it.
C10_UrlFieldHoldsTarget ==
    (pc = "click_submit" /\ urlInput # 0) => value[urlInput] = targets[targetIdx].url

====
